---- MODULE Spec2Model ----
(***************************************************************************)
(* A model of assoc_files::install_files (src/src/lib.rs:232-274) running  *)
(* against a small filesystem.  The filesystem is one tree of paths; a     *)
(* path is a sequence of names under an implicit root.  The library calls  *)
(* made by the function (Path::exists/is_dir/is_file, fs::create_dir_all,  *)
(* fs::copy, WalkDir) are modelled by what they do to that tree.           *)
(***************************************************************************)
EXTENDS Integers, Sequences, FiniteSets, TLC

VARIABLES
    fs,        \* the filesystem: path -> node
    paths,     \* argument `paths`
    dest,      \* argument `dest`
    pc,        \* position in install_files: "start", "loop", "walk", "done"
    i,         \* index of the `for p in paths` loop (1-based)
    stack,     \* WalkDir's stack of directory listings still to yield
    cur,       \* the walk's current `entry` (<<>> outside a walk)
    count,     \* local `count`
    ret,       \* the returned value: <<"None">>, <<"Ok", n>> or <<"Err">>
    platform,  \* what fs::copy does when source and target are one file
    fs0,       \* history: the filesystem when the (first) call started
    errAt,     \* history: the `?` that returned the error
    injected,  \* history: the error was an environment fault
    ncopied,   \* history: number of fs::copy calls that succeeded
    run,       \* history: "first", "again" (second call) or "replay"
    ret1,      \* history: what the first call returned
    fs1        \* history: the filesystem the first call left

vars == <<fs, paths, dest, pc, i, stack, cur, count, ret, platform,
          fs0, errAt, injected, ncopied, run, ret1, fs1>>

(***************************************************************************)
(* Bounds of the model.                                                    *)
(***************************************************************************)
MaxDepth == 3      \* longest path, in segments
MaxEntries == 2    \* entries placed in the initial filesystem
MaxSources == 2    \* longest `paths` argument

Names == {"a", "b"}

(***************************************************************************)
(* Paths (std::path::Path).                                                *)
(***************************************************************************)
RECURSIVE PathsUpTo(_)
PathsUpTo(n) ==
    IF n = 0 THEN {<<>>}
    ELSE LET P == PathsUpTo(n - 1)
         IN  P \cup {Append(p, x) : p \in {q \in P : Len(q) = n - 1}, x \in Names}

Paths == PathsUpTo(MaxDepth)

Root == <<>>

\* The item WalkDir yields for a directory it cannot list.
WalkErr == <<"!">>

IsPrefix(p, q) == Len(p) <= Len(q) /\ SubSeq(q, 1, Len(p)) = p

Under(p, q) == IsPrefix(q, p) /\ p # q          \* p lies strictly below q

Comparable(p, q) == IsPrefix(p, q) \/ IsPrefix(q, p)

Parent(p) == SubSeq(p, 1, Len(p) - 1)

\* Path::file_name: the final segment.
file_name(p) == <<p[Len(p)]>>

\* A faulty variant of strip_prefix: strips p's parent only, so p's own name stays.
strip_prefix_keeps_name(full, p) ==
    IF IsPrefix(p, full) THEN SubSeq(full, Len(p), Len(full)) ELSE full

\* full_path.strip_prefix(p).unwrap_or(full_path)
strip_prefix(full, p) ==
    IF IsPrefix(p, full) THEN SubSeq(full, Len(p) + 1, Len(full)) ELSE full

\* A faulty variant of join: the inner path taken as it stands, as Path::join does
\* with an absolute one.
join_ignores_dest(d, inner) == inner

\* dest.join(inner) for a relative inner path.
join(d, inner) == d \o inner

(***************************************************************************)
(* Nodes.  "none": no such path.  "dir": a directory.  "lock": a directory *)
(* whose listing fails (read_dir is denied).  "other": exists but is       *)
(* neither a regular file nor a directory.  "f0", "f1", "f2": a regular    *)
(* file with that content, "f0" being the empty file.  "r1": a regular     *)
(* file, with content of its own, whose permissions are read-only, as seen *)
(* by a caller without the privilege to override them.                     *)
(***************************************************************************)
Files == {"f0", "f1", "f2", "r1"}
ReadOnly == {"r1"}
Dirs == {"dir", "lock"}
Nodes == {"none", "other"} \cup Dirs \cup Files

exists(f, p) == f[p] # "none"
is_dir(f, p) == f[p] \in Dirs
is_file(f, p) == f[p] \in Files

\* fs::create_dir_all(q) can succeed: nothing on the way is a non-directory.
CanCreateDirAll(f, q) ==
    /\ q \in Paths
    /\ \A k \in 0..Len(q) : f[SubSeq(q, 1, k)] \in Dirs \cup {"none"}

\* A faulty variant of create_dir_all: fs::create_dir, which makes q alone.
create_dir_only(f, q) == [f EXCEPT ![q] = IF f[q] = "none" THEN "dir" ELSE f[q]]

\* fs::create_dir_all(q): q and its missing ancestors become directories.
create_dir_all(f, q) ==
    [x \in Paths |-> IF IsPrefix(x, q) /\ f[x] = "none" THEN "dir" ELSE f[x]]

\* fs::copy(from, to) can succeed: from is a regular file, to's parent is a
\* directory and to is absent or a regular file that can be opened for
\* writing.
CanCopy(f, from, to) ==
    /\ to \in Paths
    /\ Len(to) > 0
    /\ is_file(f, from)
    /\ is_dir(f, Parent(to))
    /\ f[to] \in (Files \ ReadOnly) \cup {"none"}

\* fs::copy(from, to): to holds from's bytes and has from's permission bits.
\* Copying a file onto itself opens it for writing with truncation first,
\* which empties it.
copy(f, from, to) ==
    IF from = to THEN [f EXCEPT ![to] = "f0"] ELSE [f EXCEPT ![to] = f[from]]

\* The entries WalkDir lists under directory d.
Children(f, d) ==
    IF f[d] = "lock" THEN {WalkErr}
    ELSE IF f[d] = "dir"
         THEN {c \in Paths : Len(c) = Len(d) + 1 /\ IsPrefix(d, c) /\ f[c] # "none"}
         ELSE {}

\* WalkDir pops the listings it has exhausted.
RECURSIVE PopEmpty(_)
PopEmpty(s) ==
    IF s = <<>> THEN s
    ELSE IF s[Len(s)] = {} THEN PopEmpty(SubSeq(s, 1, Len(s) - 1))
    ELSE s

\* A faulty variant of Advance: a listing is given up once it has yielded a file.
AdvanceStopsAtFile(f, s, e) ==
    LET n == Len(s)
        rest == [s EXCEPT ![n] = IF e # WalkErr /\ is_file(f, e) THEN {} ELSE s[n] \ {e}]
        pushed == IF e # WalkErr /\ is_dir(f, e)
                  THEN Append(rest, Children(f, e)) ELSE rest
    IN  PopEmpty(pushed)

\* WalkDir::next having yielded e from the top listing: e leaves the listing,
\* and a directory's own listing goes on top (contents after their directory).
Advance(f, s, e) ==
    LET n == Len(s)
        rest == [s EXCEPT ![n] = s[n] \ {e}]
        pushed == IF e # WalkErr /\ is_dir(f, e)
                  THEN Append(rest, Children(f, e)) ELSE rest
    IN  PopEmpty(pushed)

(***************************************************************************)
(* Initial states: a filesystem, an argument list and a destination.       *)
(***************************************************************************)
RECURSIVE SubsetsUpTo(_, _)
SubsetsUpTo(S, n) ==
    IF n = 0 THEN {{}}
    ELSE LET R == SubsetsUpTo(S, n - 1)
         IN  R \cup {r \cup {x} : r \in R, x \in S}

RECURSIVE SeqsUpTo(_, _)
SeqsUpTo(S, n) ==
    IF n = 0 THEN {<<>>}
    ELSE LET R == SeqsUpTo(S, n - 1)
         IN  R \cup {Append(r, x) : r \in {q \in R : Len(q) = n - 1}, x \in S}

LeafKinds == {"f1", "f2", "r1", "dir", "lock", "other"}

\* The tree holding the entries E with kinds k: what lies above an entry is
\* a directory.  The contents "f1" and "f2" carry no meaning, so a tree
\* that holds "f2" without "f1" is left to its mirror image.
MkFs(E, k) ==
    [x \in Paths |->
        IF \E e \in E : Under(e, x)
        THEN (IF x \in E /\ k[x] = "lock" THEN "lock" ELSE "dir")
        ELSE IF x \in E THEN k[x]
        ELSE IF x = Root THEN "dir" ELSE "none"]

Range(s) == {s[k] : k \in 1..Len(s)}

\* The inputs the model covers.  A walk of a directory that the call itself
\* writes into is left out (what read_dir then lists is unspecified), so a
\* source that overlaps the destination is a regular file, or below the
\* destination and absent with no directory among the sources.  Every target
\* path fits in Paths.
Admissible(f, ps, d) ==
    /\ \A p \in Range(ps) :
          /\ IsPrefix(p, d) => f[p] \in Files \cup {"other"}
          /\ Under(p, d) =>
                \/ f[p] \in Files
                \/ f[p] = "none" /\ \A q \in Range(ps) : ~is_dir(f, q)
          /\ (is_file(f, p) \/ Under(p, d)) => Len(d) + 1 <= MaxDepth
          /\ is_dir(f, p) =>
                \A e \in Paths :
                    (IsPrefix(p, e) /\ f[e] # "none")
                        => Len(d) + Len(e) - Len(p) <= MaxDepth

\* The destinations tried: "b", and directories nested in it.  Names carry
\* no meaning, so these stand for the others; a destination of MaxDepth
\* segments would leave no room for anything installed under it.
DestChoices ==
    {d \in Paths : /\ Len(d) >= 1 /\ Len(d) < MaxDepth
                    /\ d[1] = "b"
                    /\ \A k \in 2..Len(d) : d[k] = "a"}

\* A path that does not exist and is not touched by the call: every such
\* source behaves alike, so one stands for all.
Missing(f, d) ==
    LET M == {p \in Paths : f[p] = "none" /\ ~Comparable(p, d)}
    IN  IF M = {} THEN {} ELSE {CHOOSE p \in M : \A q \in M : Len(p) <= Len(q)}

\* The sources tried: what exists, one missing path, and the absent paths
\* directly under the destination (a file source may create them).
SourceChoices(f, d) ==
    {p \in Paths \ {Root} : f[p] # "none"}
        \cup Missing(f, d)
        \cup {p \in Paths : Parent(p) = d /\ Len(p) > 0 /\ f[p] = "none"}

Init ==
    /\ \E E \in SubsetsUpTo(Paths \ {Root}, MaxEntries) :
          \E k \in [E -> LeafKinds] :
              /\ (\E e \in E : k[e] = "f2") => (\E e \in E : k[e] = "f1")
              /\ fs = MkFs(E, k)
    /\ dest \in DestChoices
    /\ paths \in SeqsUpTo(SourceChoices(fs, dest), MaxSources)
    /\ Admissible(fs, paths, dest)
    /\ platform \in (IF \E p \in Range(paths) : Under(p, dest)
                     THEN {"truncate", "refuse"} ELSE {"truncate"})
    /\ pc = "start"
    /\ i = 1
    /\ stack = <<>>
    /\ cur = Root
    /\ count = 0
    /\ ret = <<"None">>
    /\ fs0 = fs
    /\ errAt = "none"
    /\ injected = FALSE
    /\ ncopied = 0
    /\ run = "first"
    /\ ret1 = <<"None">>
    /\ fs1 = fs

(***************************************************************************)
(* install_files.                                                          *)
(***************************************************************************)
hist == <<fs0, run, ret1, fs1>>
args == <<paths, dest, platform>>

\* A faulty variant of Fail: the error is returned after undoing what the call wrote.
FailRollsBack(site, env, e) ==
    /\ env => run = "first"
    /\ ret' = <<"Err">>
    /\ pc' = "done"
    /\ errAt' = site
    /\ injected' = env
    /\ cur' = e
    /\ fs' = fs0
    /\ UNCHANGED <<i, stack, count, ncopied>>

\* `?` on an Err: the function returns it.  e is the walk's entry the
\* failing call was made for (cur outside a walk).
Fail(site, env, e) ==
    /\ env => run = "first"
    /\ ret' = <<"Err">>
    /\ pc' = "done"
    /\ errAt' = site
    /\ injected' = env
    /\ cur' = e
    /\ UNCHANGED <<fs, i, stack, count, ncopied>>

\* if !dest.exists() { fs::create_dir_all(&dest)?; }  let mut count = 0;
EnsureDest ==
    /\ pc = "start"
    /\ \/ /\ exists(fs, dest)
          /\ pc' = "loop"
          /\ count' = 0
          /\ UNCHANGED <<fs, ret, errAt, injected, i, stack, cur, ncopied>>
       \/ /\ ~exists(fs, dest)
          /\ CanCreateDirAll(fs, dest)
          /\ fs' = create_dir_all(fs, dest)
          /\ pc' = "loop"
          /\ count' = 0
          /\ UNCHANGED <<ret, errAt, injected, i, stack, cur, ncopied>>
       \/ /\ ~exists(fs, dest)
          /\ ~CanCreateDirAll(fs, dest)
          /\ Fail("dest", FALSE, cur)
       \/ /\ ~exists(fs, dest)
          /\ CanCreateDirAll(fs, dest)
          /\ Fail("dest", TRUE, cur)
    /\ UNCHANGED <<args, hist>>

\* if p.is_dir() { for entry in WalkDir::new(p).into_iter()... : the walk
\* starts, and will yield p itself first.
BeginWalk ==
    /\ pc = "loop"
    /\ i <= Len(paths)
    /\ is_dir(fs, paths[i])
    /\ pc' = "walk"
    /\ stack' = <<{paths[i]}>>
    /\ UNCHANGED <<fs, i, cur, count, ret, errAt, injected, ncopied, args, hist>>

\* The walk goes on after the body ran for entry e; when it has nothing left
\* the `for p in paths` loop moves to the next source.
Continue(e) ==
    LET s == Advance(fs, stack, e)
    IN  /\ stack' = s
        /\ cur' = e
        /\ IF s = <<>>
           THEN pc' = "loop" /\ i' = i + 1
           ELSE pc' = "walk" /\ i' = i

\* WalkDir::next yields e: an entry of the listing on top of the stack.
Yielded(e) ==
    /\ pc = "walk"
    /\ stack # <<>>
    /\ e \in stack[Len(stack)]

\* A faulty variant of WalkSkipErr: the enumeration error is returned (entry?).
WalkReturnsErr ==
    /\ Yielded(WalkErr)
    /\ Fail("walk", FALSE, WalkErr)
    /\ UNCHANGED <<args, hist>>

\* .filter_map(|e| e.ok()): an entry that failed to enumerate is dropped.
WalkSkipErr ==
    /\ Yielded(WalkErr)
    /\ Continue(WalkErr)
    /\ UNCHANGED <<fs, count, ret, errAt, injected, ncopied, args, hist>>

\* A faulty variant of MakeDir: a created directory is counted as an installed file.
MakeDirCounted(dest_path) ==
    /\ fs' = create_dir_all(fs, dest_path)
    /\ count' = count + 1
    /\ UNCHANGED ncopied

\* fs::create_dir_all(dest_path)?; with no error: the count stays.
MakeDir(dest_path) ==
    /\ fs' = create_dir_all(fs, dest_path)
    /\ UNCHANGED <<count, ncopied>>

\* fs::copy(from, to)?; count += 1; with no error.
CopyFile(from, to) ==
    /\ fs' = copy(fs, from, to)
    /\ count' = count + 1
    /\ ncopied' = ncopied + 1

\* if full_path.is_dir() { fs::create_dir_all(dest_path)?; }
WalkDirEntry ==
    \E full_path \in Paths :
        LET p == paths[i]
            inner_path == strip_prefix(full_path, p)
            dest_path == join(dest, inner_path)
        IN  /\ Yielded(full_path)
            /\ is_dir(fs, full_path)
            /\ \/ /\ CanCreateDirAll(fs, dest_path)
                  /\ MakeDir(dest_path)
                  /\ Continue(full_path)
                  /\ UNCHANGED <<ret, errAt, injected>>
               \/ /\ ~CanCreateDirAll(fs, dest_path)
                  /\ Fail("dir", FALSE, full_path)
               \/ /\ CanCreateDirAll(fs, dest_path)
                  /\ Fail("dir", TRUE, full_path)
            /\ UNCHANGED <<args, hist>>

\* else if full_path.is_file() { fs::copy(full_path, dest_path)?; count += 1; }
WalkFileEntry ==
    \E full_path \in Paths :
        LET p == paths[i]
            inner_path == strip_prefix(full_path, p)
            dest_path == join(dest, inner_path)
        IN  /\ Yielded(full_path)
            /\ ~is_dir(fs, full_path)
            /\ is_file(fs, full_path)
            /\ \/ /\ CanCopy(fs, full_path, dest_path)
                  /\ CopyFile(full_path, dest_path)
                  /\ Continue(full_path)
                  /\ UNCHANGED <<ret, errAt, injected>>
               \/ /\ ~CanCopy(fs, full_path, dest_path)
                  /\ Fail("file", FALSE, full_path)
               \/ /\ CanCopy(fs, full_path, dest_path)
                  /\ Fail("file", TRUE, full_path)
            /\ UNCHANGED <<args, hist>>

\* An entry that is neither a directory nor a regular file: no branch runs.
WalkOtherEntry ==
    \E full_path \in Paths :
        /\ Yielded(full_path)
        /\ ~is_dir(fs, full_path)
        /\ ~is_file(fs, full_path)
        /\ Continue(full_path)
        /\ UNCHANGED <<fs, count, ret, errAt, injected, ncopied, args, hist>>

\* else if p.is_file() { ... fs::copy(p, dest.join(p.file_name()))?; count += 1; }
\* Where p is the target itself, a platform that refuses to open one file
\* for reading and for writing at once returns an error instead.
CopyFileSource ==
    LET p == paths[i]
        inner_path == file_name(p)
        dest_path == join(dest, inner_path)
        refused == p = dest_path /\ platform = "refuse"
    IN  /\ pc = "loop"
        /\ i <= Len(paths)
        /\ ~is_dir(fs, p)
        /\ is_file(fs, p)
        /\ \/ /\ CanCopy(fs, p, dest_path)
              /\ ~refused
              /\ CopyFile(p, dest_path)
              /\ i' = i + 1
              /\ UNCHANGED <<pc, stack, cur, ret, errAt, injected>>
           \/ /\ ~CanCopy(fs, p, dest_path) \/ refused
              /\ Fail("source", FALSE, cur)
           \/ /\ CanCopy(fs, p, dest_path)
              /\ ~refused
              /\ Fail("source", TRUE, cur)
        /\ UNCHANGED <<args, hist>>

\* A source that is neither a directory nor a regular file: no branch runs.
SkipSource ==
    /\ pc = "loop"
    /\ i <= Len(paths)
    /\ ~is_dir(fs, paths[i])
    /\ ~is_file(fs, paths[i])
    /\ i' = i + 1
    /\ UNCHANGED <<fs, pc, stack, cur, count, ret, errAt, injected, ncopied, args, hist>>

\* Ok(count)
Return ==
    /\ pc = "loop"
    /\ i > Len(paths)
    /\ ret' = <<"Ok", count>>
    /\ pc' = "done"
    /\ UNCHANGED <<fs, i, stack, cur, count, errAt, injected, ncopied, args, hist>>

Next ==
    \/ EnsureDest
    \/ BeginWalk
    \/ WalkSkipErr
    \/ WalkDirEntry
    \/ WalkFileEntry
    \/ WalkOtherEntry
    \/ CopyFileSource
    \/ SkipSource
    \/ Return

Spec == Init /\ [][Next]_vars

\* The build script runs again: install_files is called a second time with
\* the same arguments on the filesystem the first call left.
CallAgain ==
    /\ pc = "done"
    /\ run = "first"
    /\ ret[1] = "Ok"
    /\ run' = "again"
    /\ ret1' = ret
    /\ fs1' = fs
    /\ pc' = "start"
    /\ i' = 1
    /\ stack' = <<>>
    /\ cur' = Root
    /\ ncopied' = 0
    /\ ret' = <<"None">>
    /\ UNCHANGED <<fs, fs0, count, errAt, injected, args>>

SpecTwice == Init /\ [][Next \/ CallAgain]_vars

\* The same call made once more from the same initial filesystem, free to
\* take another visiting order: two runs of one input, side by side.
Replay ==
    /\ pc = "done"
    /\ run = "first"
    /\ ~injected
    /\ run' = "replay"
    /\ ret1' = ret
    /\ fs1' = fs
    /\ fs' = fs0
    /\ pc' = "start"
    /\ i' = 1
    /\ stack' = <<>>
    /\ cur' = Root
    /\ ncopied' = 0
    /\ ret' = <<"None">>
    /\ errAt' = "none"
    /\ UNCHANGED <<fs0, count, injected, args>>

SpecReplay == Init /\ [][Next \/ Replay]_vars

(***************************************************************************)
(* Vocabulary of the properties.                                           *)
(***************************************************************************)
Done == pc = "done"
Ok == ret[1] = "Ok"

\* The trees stay well formed: what exists lies in a directory.
TypeOK ==
    /\ fs \in [Paths -> Nodes]
    /\ pc \in {"start", "loop", "walk", "done"}
    /\ i \in 1..(Len(paths) + 1)
    /\ count \in Nat
    /\ \A q \in Paths \ {Root} : exists(fs, q) => is_dir(fs, Parent(q))

First == run = "first"

\* e is met by the walk of directory source S: it exists below S and every
\* directory from S down to its parent can be listed.
Reach(f, S, e) ==
    /\ Under(e, S)
    /\ exists(f, e)
    /\ \A k \in Len(S)..(Len(e) - 1) : f[SubSeq(e, 1, k)] = "dir"

\* e's path relative to S.
Rel(S, e) == SubSeq(e, Len(S) + 1, Len(e))

\* The last segment of p, as a one-segment relative path.
Basename(p) == SubSeq(p, Len(p), Len(p))

\* The destination holds nothing when the call starts.
DestEmpty ==
    /\ fs0[dest] \in {"none", "dir"}
    /\ \A q \in Paths : Under(q, dest) => fs0[q] = "none"

\* The call was given one source, a directory, and an empty destination, and
\* it has returned Ok.
OneDirInstalled ==
    /\ Done /\ Ok /\ First
    /\ Len(paths) = 1
    /\ is_dir(fs0, paths[1])
    /\ DestEmpty

\* The destination mirrors what the walk of S meets: files with their
\* content, directories (empty ones too), and nothing else.
Mirrors(S) ==
    /\ \A e \in Paths :
          (Reach(fs0, S, e) /\ is_file(fs0, e)) => fs[dest \o Rel(S, e)] = fs0[e]
    /\ \A e \in Paths :
          (Reach(fs0, S, e) /\ is_dir(fs0, e)) => fs[dest \o Rel(S, e)] = "dir"
    /\ fs[dest] = "dir"
    /\ \A q \in Paths :
          (Under(q, dest) /\ exists(fs, q)) =>
              \E e \in Paths :
                  /\ Reach(fs0, S, e)
                  /\ is_dir(fs0, e) \/ is_file(fs0, e)
                  /\ q = dest \o Rel(S, e)

\* S's own name is a segment of some path installed under the destination.
NameAppears(S) ==
    \E q \in Paths :
        /\ Under(q, dest)
        /\ exists(fs, q)
        /\ \E k \in (Len(dest) + 1)..Len(q) : q[k] = S[Len(S)]

\* C1 as stated: a directory source installed alone into an empty destination
\* is mirrored there, and its own name is no path segment under the
\* destination.
C1_AsStated ==
    OneDirInstalled => (Mirrors(paths[1]) /\ ~NameAppears(paths[1]))

\* C1, amended: a directory source installed alone into an empty destination
\* is mirrored there (every file the walk meets at its relative path with its
\* content, every directory it meets, nothing else), and the source's own name
\* is a segment under the destination only where something below the source
\* bears that name.
C1_DirectoryMirrored ==
    OneDirInstalled =>
        /\ Mirrors(paths[1])
        /\ NameAppears(paths[1]) =>
              \E e \in Paths :
                  /\ Reach(fs0, paths[1], e)
                  /\ \E k \in 1..Len(Rel(paths[1], e)) :
                        Rel(paths[1], e)[k] = paths[1][Len(paths[1])]

\* A directory holding a file two levels down and an empty directory has
\* been installed.
C1_Witness ==
    /\ OneDirInstalled
    /\ \E e \in Paths :
          /\ Reach(fs0, paths[1], e) /\ is_file(fs0, e)
          /\ Len(Rel(paths[1], e)) = 2
          /\ fs[dest \o Rel(paths[1], e)] = fs0[e]
    /\ \E e \in Paths :
          /\ Reach(fs0, paths[1], e) /\ fs0[e] = "dir"
          /\ Children(fs0, e) = {}
          /\ fs[dest \o Rel(paths[1], e)] = "dir"

(***************************************************************************)
(* C2                                                                      *)
(***************************************************************************)
\* The loop stands at a source that is a regular file.
AtFileSource == pc = "loop" /\ i <= Len(paths) /\ is_file(fs, paths[i])

\* C2: the step that installs a file source leaves a regular file with the
\* content the source had at destination/<last segment of the source>, one
\* level below the destination whatever the source's depth, and changes no
\* other path.
C2_FileSourceFlattened ==
    [][(AtFileSource /\ ret' = <<"None">>) =>
          LET p == paths[i]
              t == dest \o Basename(p)
          IN  /\ Len(t) = Len(dest) + 1
              /\ is_file(fs', t)
              /\ fs'[t] = fs[p]
              /\ \A q \in Paths \ {t} : fs'[q] = fs[q]
              /\ count' = count + 1
              /\ i' = i + 1]_vars

(***************************************************************************)
(* C3                                                                      *)
(***************************************************************************)
\* The regular files source p stands for: itself, or what its walk meets.
FilesMet(f, p) ==
    IF is_dir(f, p)
    THEN Cardinality({e \in Paths : Reach(f, p, e) /\ is_file(f, e)})
    ELSE IF is_file(f, p) THEN 1 ELSE 0

RECURSIVE FilesMetUpTo(_, _)
FilesMetUpTo(f, n) ==
    IF n = 0 THEN 0 ELSE FilesMetUpTo(f, n - 1) + FilesMet(f, paths[n])

\* C3: the count returned with Ok is the number of fs::copy calls the call
\* made and that succeeded; with no source inside the destination that is one
\* per file source plus one per regular file each directory walk meets.
C3_CountIsFilesCopied ==
    /\ Ok => ret[2] = ncopied
    /\ (Ok /\ \A p \in Range(paths) : ~Under(p, dest)) =>
          ret[2] = FilesMetUpTo(fs0, Len(paths))

\* A call has returned Ok after copying a file, creating a directory under
\* the destination and skipping an entry.
C3_Witness ==
    /\ Done /\ Ok /\ First
    /\ ret[2] >= 1
    /\ \E q \in Paths : Under(q, dest) /\ fs0[q] = "none" /\ fs[q] = "dir"
    /\ \E k \in 1..Len(paths) : ~is_dir(fs0, paths[k]) /\ ~is_file(fs0, paths[k])

(***************************************************************************)
(* C4                                                                      *)
(***************************************************************************)
\* C4: the step that returns an error changes nothing in the filesystem (what
\* was copied before stays), returns the bare error and ends the call with
\* the loop and the walk where they stood; no step follows it.
C4_FailFastNoRollback ==
    [][/\ ret[1] # "Err"
       /\ ret'[1] = "Err" =>
             /\ fs' = fs
             /\ ret' = <<"Err">>
             /\ pc' = "done"
             /\ i' = i /\ stack' = stack /\ count' = count]_vars

\* A copy or a directory creation failed after a file had been copied, with
\* entries or sources still to come.
C4_Witness ==
    /\ Done /\ ret = <<"Err">>
    /\ errAt \in {"dir", "file", "source"}
    /\ ncopied >= 1
    /\ \E q \in Paths : fs[q] # fs0[q] /\ is_file(fs, q)
    /\ stack # <<>> \/ i < Len(paths)

(***************************************************************************)
(* C5                                                                      *)
(***************************************************************************)
\* C5: where the destination did not exist, it and everything above it are
\* directories whenever a source is being processed; and when its creation
\* fails the call returns the error having touched nothing: no source was
\* reached, nothing was copied, nothing was created.
C5_DestinationFirst ==
    /\ (First /\ ~exists(fs0, dest) /\ (pc \in {"loop", "walk"} \/ Ok)) =>
          \A k \in 0..Len(dest) : is_dir(fs, SubSeq(dest, 1, k))
    /\ errAt = "dest" =>
          /\ ret = <<"Err">> /\ Done
          /\ fs = fs0
          /\ i = 1 /\ stack = <<>> /\ ncopied = 0

\* A destination missing together with its parent has been created and a
\* file copied into it.
C5_Witness ==
    /\ First /\ Done /\ Ok
    /\ Len(dest) = 2
    /\ fs0[dest] = "none" /\ fs0[Parent(dest)] = "none"
    /\ fs[dest] = "dir" /\ fs[Parent(dest)] = "dir"
    /\ ncopied >= 1

(***************************************************************************)
(* C6                                                                      *)
(***************************************************************************)
\* Source k maps a regular file onto path q of the destination.
MapsFile(f, k, q) ==
    LET p == paths[k]
    IN  /\ Under(q, dest)
        /\ IF is_dir(f, p)
           THEN LET e == p \o Rel(dest, q)
                IN  e \in Paths /\ Reach(f, p, e) /\ is_file(f, e)
           ELSE is_file(f, p) /\ q = dest \o Basename(p)

\* Source k maps an entry, a regular file or a directory, onto q.
MapsAny(f, k, q) ==
    LET p == paths[k]
    IN  /\ Under(q, dest)
        /\ IF is_dir(f, p)
           THEN LET e == p \o Rel(dest, q)
                IN  e \in Paths /\ Reach(f, p, e) /\ (is_file(f, e) \/ is_dir(f, e))
           ELSE is_file(f, p) /\ q = dest \o Basename(p)

\* The file source k copies onto q.
SrcFile(f, k, q) ==
    IF is_dir(f, paths[k]) THEN paths[k] \o Rel(dest, q) ELSE paths[k]

Max(S) == CHOOSE x \in S : \A y \in S : y <= x

\* C6: with nothing else in the way (an empty destination that exists or can
\* be created, no source overlapping it, no environment fault), when two
\* sources map regular files onto one path of the destination the call
\* returns Ok and every path a source maps a file onto holds the content of
\* the last source, in list order, that does.
C6_LaterOverwrites ==
    (/\ Done /\ First /\ ~injected
     /\ DestEmpty /\ CanCreateDirAll(fs0, dest)
     /\ \A p \in Range(paths) : ~Comparable(p, dest)
     /\ \E q \in Paths : \E k, l \in 1..Len(paths) :
           k < l /\ MapsFile(fs0, k, q) /\ MapsFile(fs0, l, q))
        => /\ Ok
           /\ \A q \in Paths :
                 LET K == {k \in 1..Len(paths) : MapsFile(fs0, k, q)}
                 IN  K # {} => fs[q] = fs0[SrcFile(fs0, Max(K), q)]

(***************************************************************************)
(* C8                                                                      *)
(***************************************************************************)
\* Nothing is deleted, nothing but a regular file or an absent path changes,
\* outside the destination only its missing ancestors change (they become
\* directories), and inside it only the paths a source maps an entry onto.
FrameKept ==
    \A q \in Paths :
        /\ exists(fs0, q) => exists(fs, q)
        /\ fs0[q] \notin Files \cup {"none"} => fs[q] = fs0[q]
        /\ ~IsPrefix(dest, q) =>
              \/ fs[q] = fs0[q]
              \/ IsPrefix(q, dest) /\ fs0[q] = "none" /\ fs[q] = "dir"
        /\ (Under(q, dest) /\ fs[q] # fs0[q]) =>
              \E k \in 1..Len(paths) : MapsAny(fs0, k, q)

\* C8 as stated, for the sources that are not their own target: the frame
\* holds and every such source that is a file or a directory is, with all
\* below it, as it was.
C8_AsStated ==
    First =>
        /\ FrameKept
        /\ \A p \in Range(paths) :
              ((is_file(fs0, p) \/ is_dir(fs0, p)) /\ p # dest \o Basename(p)) =>
                  \A e \in Paths : IsPrefix(p, e) => fs[e] = fs0[e]

\* C8, amended: the frame holds (inside the destination only what a source
\* maps an entry onto changes), and a source that does not lie inside the
\* destination is, with all below it, as it was.
C8_FrameAndSources ==
    First =>
        /\ FrameKept
        /\ \A p \in Range(paths) :
              ~Under(p, dest) =>
                  \A e \in Paths : (IsPrefix(p, e) /\ ~IsPrefix(dest, e)) => fs[e] = fs0[e]

\* A call has returned Ok having copied a file, with a file of the
\* destination that no source maps onto still as it was.
C8_Witness ==
    /\ Done /\ Ok /\ First /\ ncopied >= 1
    /\ \E q \in Paths :
          /\ Under(q, dest) /\ is_file(fs0, q) /\ fs[q] = fs0[q]
          /\ \A k \in 1..Len(paths) : ~MapsAny(fs0, k, q)

(***************************************************************************)
(* C9                                                                      *)
(***************************************************************************)
\* p is neither a regular file nor a directory.
Neither(f, p) == ~is_dir(f, p) /\ ~is_file(f, p)

\* C9: a source that is neither a regular file nor a directory is stepped
\* over, and so is a walk entry that is neither or that failed to enumerate:
\* the filesystem and the count stay, nothing is returned, and what was
\* pending in the walk is still pending.
C9_NeitherIsSkipped ==
    [][/\ (pc = "loop" /\ i <= Len(paths) /\ Neither(fs, paths[i])) =>
             /\ fs' = fs /\ count' = count /\ ret' = <<"None">>
             /\ pc' = "loop" /\ i' = i + 1
       /\ (pc = "walk" /\ (cur' = WalkErr \/ Neither(fs, cur'))) =>
             /\ fs' = fs /\ count' = count /\ ret' = <<"None">>
             /\ \A k \in 1..Len(stack) : \A x \in stack[k] \ {cur'} :
                   \E m \in 1..Len(stack') : x \in stack'[m]
             /\ IF stack' = <<>> THEN pc' = "loop" /\ i' = i + 1
                                 ELSE pc' = "walk" /\ i' = i]_vars

\* A walk has stepped over an entry that is neither, after a source that does
\* not exist, and goes on.
C9_Witness ==
    /\ pc = "walk" /\ First
    /\ cur \in Paths /\ fs[cur] = "other"
    /\ i = 2 /\ fs[paths[1]] = "none"
    /\ ret = <<"None">> /\ fs = create_dir_all(fs0, dest)

(***************************************************************************)
(* C7                                                                      *)
(***************************************************************************)
\* C7: with no source overlapping the destination, the second call returns
\* what the first returned (Ok with the same count) and leaves the filesystem
\* as the first left it.
C7_SecondCallSame ==
    (/\ run = "again" /\ Done
     /\ \A p \in Range(paths) : ~Comparable(p, dest))
        => (ret = ret1 /\ fs = fs1)

====
